---------------------------- MODULE Spec2Model ----------------------------
(***************************************************************************)
(* A model of pyrepl's screen-and-input engine:                            *)
(*   - KeymapTranslator            (src/pyrepl/input.py)                   *)
(*   - Buffer, the output queue    (src/pyrepl/unix_console.py)            *)
(*   - UnixConsole, the refresh engine and the event retrieval             *)
(*                                 (src/pyrepl/unix_console.py)            *)
(* Each subsystem has a specification of its own (SpecKT, SpecBuf, ...);   *)
(* the variables of the other subsystems are held at their initial value.  *)
(* Python strings are sequences of one-character strings; Python's None is *)
(* the string "None".                                                      *)
(***************************************************************************)
EXTENDS Integers, Sequences, FiniteSets, TLC

VARIABLES
    \* ---- KeymapTranslator
    keymap,     \* the dict d built in __init__: the set of bound key sequences
    ck,         \* self.ck: the compiled trie (root dict, memoized keys included)
    k,          \* self.k: the current trie node, as its path from the root
    stack,      \* self.stack
    results,    \* self.results (the deque)
    pushed,     \* history: every key pushed so far
    got,        \* history: every result get() returned so far
    \* ---- Buffer, on its own
    bbuf,       \* Buffer.__buf
    bdev,       \* history: the items written to the output descriptor, in order
    bnext,      \* history: the number of items pushed so far
    bflushes,   \* history: the number of flush() calls so far
    \* ---- UnixConsole and its terminal
    con,        \* the UnixConsole object: its attributes, by their names
    term,       \* the terminal device: capabilities, character grid, cursor
    obs,        \* what the last operation was seen to do (history)
    \* ---- get_event()
    ev          \* the position of get_event(), the input bytes, the history

ktVars == <<keymap, ck, k, stack, results, pushed, got>>
bufVars == <<bbuf, bdev, bnext, bflushes>>
conVars == <<con, term, obs>>
vars == <<ktVars, bufVars, conVars, ev>>

None == "None"

Min(a, b) == IF a < b THEN a ELSE b
Max(a, b) == IF a > b THEN a ELSE b

(***************************************************************************)
(*                           KeymapTranslator                              *)
(***************************************************************************)

\* Bounds of the translator's model.
MaxSeqLen == 2      \* longest bound key sequence
MaxPush == 3        \* number of push() calls in a behaviour

\* Key codes (evt.data).  "^A" stands for the one-character control code
\* "\x01"; "left" is a named key, a string of four characters.
Keys == {"a", "b", "^A", "left"}
\* The keys a binding may use.
BindKeys == {"a", "^A"}

\* len(key)
KeyLen(key) == IF key = "left" THEN 4 ELSE 1

\* unicodedata.category(key): a two-letter general category.
category(key) == IF key = "^A" THEN "Cc" ELSE "Ll"

\* A command is a pair <<name, key sequence>>; NoCmd stands for None.
invalid_cls == <<"invalid-key", <<>>>>
character_cls == <<"self-insert", <<>>>>
NoCmd == <<None, <<>>>>

\* The command bound to a key sequence: one command per binding.
CommandOf(keyseq) == <<"cmd", keyseq>>

SeqsUpTo(S, n) == UNION {[1..m -> S] : m \in 1..n}

IsPrefix(p, s) == Len(p) <= Len(s) /\ SubSeq(s, 1, Len(p)) = p
IsProperPrefix(p, s) == Len(p) < Len(s) /\ IsPrefix(p, s)

PrefixFree(seqs) == \A s1, s2 \in seqs : ~IsProperPrefix(s1, s2)

\* The keymaps of the model: the dict d of __init__ for every prefix-free set
\* of key sequences over BindKeys, at most MaxSeqLen keys long.  A dict is the
\* set of its items <<keyseq, command>>.
Keymaps ==
    {{<<s, CommandOf(s)>> : s \in seqs} :
        seqs \in {t \in SUBSET SeqsUpTo(BindKeys, MaxSeqLen) : PrefixFree(t)}}

\* compile_keymap(d, ()): the trie of d.  A node is a function from the first
\* keys to entries; an entry is a command leaf or a nested node.
RECURSIVE compile_keymap(_)
compile_keymap(d) ==
    LET firsts == {Head(it[1]) : it \in d}
        rest(key) == {<<Tail(it[1]), it[2]>> : it \in {t \in d : Head(t[1]) = key}}
        leaf(key) == CHOOSE it \in rest(key) : it[1] = <<>>
    IN  [key \in firsts |->
            IF \E it \in rest(key) : it[1] = <<>>
            THEN [kind |-> "cmd", cmd |-> leaf(key)[2], d |-> <<>>]
            ELSE [kind |-> "dict", cmd |-> NoCmd,
                  d |-> compile_keymap(rest(key))]]

\* The dict object a path designates.
RECURSIVE NodeAt(_, _)
NodeAt(root, path) ==
    IF path = <<>> THEN root ELSE NodeAt(root[Head(path)].d, Tail(path))

\* node[key] = cmd on the dict object a path designates (self.k[key] = ...).
NodeSetInvalid(root, path, key, cmd) ==
    [x \in DOMAIN root \cup {key} |->
        IF x = key THEN [kind |-> "cmd", cmd |-> invalid_cls, d |-> <<>>]
        ELSE root[x]]
RECURSIVE NodeSet(_, _, _, _)
NodeSet(root, path, key, cmd) ==
    IF path = <<>>
    THEN [x \in DOMAIN root \cup {key} |->
            IF x = key THEN [kind |-> "cmd", cmd |-> cmd, d |-> <<>>]
            ELSE root[x]]
    ELSE [root EXCEPT ![Head(path)].d = NodeSet(@, Tail(path), key, cmd)]

\* self.k.get(key)
Lookup(root, path, key) ==
    LET node == NodeAt(root, path)
    IN  IF key \in DOMAIN node THEN node[key]
        ELSE [kind |-> "none", cmd |-> NoCmd, d |-> <<>>]

\* The result push() appends when the lookup finds nothing.
PushMissBad(st, key) ==
    IF st # <<>> \/ KeyLen(key) > 1 \/ category(key) = "C"
    THEN <<invalid_cls, <<key>>>>
    ELSE <<character_cls, <<key>>>>
PushMiss(st, key) ==
    IF st # <<>> \/ KeyLen(key) > 1 \/ category(key) = "C"
    THEN <<invalid_cls, st \o <<key>>>>
    ELSE <<character_cls, <<key>>>>

\* KeymapTranslator.push(evt), key = evt.data
push(key) ==
    LET d == Lookup(ck, k, key)
    IN  /\ Len(pushed) < MaxPush
        /\ pushed' = Append(pushed, key)
        /\ IF d.kind = "dict"
           THEN /\ stack' = Append(stack, key)
                /\ k' = Append(k, key)
                /\ UNCHANGED <<ck, results>>
           ELSE /\ IF d.kind = "none"
                   THEN /\ results' = Append(results, PushMiss(stack, key))
                        /\ ck' = IF PushMiss(stack, key)[1] = character_cls
                                 THEN NodeSet(ck, k, key, character_cls)
                                 ELSE ck
                   ELSE /\ results' = Append(results, <<d.cmd, stack \o <<key>>>>)
                        /\ ck' = ck
                /\ stack' = <<>>
                /\ k' = <<>>
        /\ UNCHANGED <<keymap, got>>

\* The result get() returns.
GetPopBad(rs) == [ret |-> rs[Len(rs)], rest |-> SubSeq(rs, 1, Len(rs) - 1)]
GetPop(rs) == [ret |-> Head(rs), rest |-> Tail(rs)]

\* KeymapTranslator.get()
get ==
    /\ IF results # <<>>
       THEN /\ got' = Append(got, GetPop(results).ret)
            /\ results' = GetPop(results).rest
       ELSE UNCHANGED <<got, results>>
    /\ UNCHANGED <<keymap, ck, k, stack, pushed>>

\* ---- The translator's contract, stated on the keymap d itself ------------

\* The key sequences d binds.
BoundSeqs(d) == {it[1] : it \in d}

\* The maximal sequences of an input: a sequence ends with the key that
\* completes a binding or that no binding continues; `cur` is the sequence in
\* progress, `acc` the sequences ended so far.
RECURSIVE MaximalSeqs(_, _, _, _)
MaximalSeqs(seqs, input, cur, acc) ==
    IF input = <<>> THEN [done |-> acc, pending |-> cur]
    ELSE LET q == Append(cur, Head(input))
         IN  IF q \notin seqs /\ \E s \in seqs : IsProperPrefix(q, s)
             THEN MaximalSeqs(seqs, Tail(input), q, acc)
             ELSE MaximalSeqs(seqs, Tail(input), <<>>, Append(acc, q))

RECURSIVE Concat(_)
Concat(ss) == IF ss = <<>> THEN <<>> ELSE Head(ss) \o Concat(Tail(ss))

\* Every result produced so far, in get() order.
AllResults == got \o results
KeyLists(rs) == [i \in 1..Len(rs) |-> rs[i][2]]

\* C1: for a prefix-free keymap, the results in get() order are exactly the
\* maximal matched or invalid sequences of the pushed keys, one result per
\* sequence (so a push adds at most one), and their key lists followed by the
\* pending stack concatenate to the pushed key sequence.
C1_Reconstructs ==
    LET m == MaximalSeqs(BoundSeqs(keymap), pushed, <<>>, <<>>)
    IN  /\ KeyLists(AllResults) = m.done
        /\ stack = m.pending
        /\ Len(AllResults) <= Len(pushed)
        /\ Concat(KeyLists(AllResults)) \o stack = pushed

\* An invalid two-key sequence was returned by get() and the input ends
\* inside a prefix.
C1_Witness ==
    /\ stack # <<>>
    /\ \E i \in 1..Len(got) : got[i][1] = invalid_cls /\ Len(got[i][2]) = 2

\* A control code: a key whose general category is one of the C categories.
IsControl(key) == category(key) \in {"Cc", "Cf", "Cs", "Co", "Cn"}

\* C15: a push that finds no entry for its key, with a prefix pending or
\* with a key that is multi-character or a control code, appends the one
\* result <<invalid, pending stack followed by the key>> and leaves the
\* matcher at the root with an empty stack.
C15_MissIsInvalid ==
    [][\A key \in Keys :
          (/\ pushed' = Append(pushed, key)
           /\ Lookup(ck, k, key).kind = "none"
           /\ (stack # <<>> \/ KeyLen(key) > 1 \/ IsControl(key)))
          => (/\ results' = Append(results, <<invalid_cls, stack \o <<key>>>>)
              /\ stack' = <<>>
              /\ k' = <<>>)]_vars

\* The results and the pending stack of a translator that looks every key
\* up in the compiled trie `root` and never stores a literal key in it.
RECURSIVE NoMemoRun(_, _, _, _, _)
NoMemoRun(root, input, path, st, acc) ==
    IF input = <<>> THEN [results |-> acc, stack |-> st]
    ELSE IF Lookup(root, path, Head(input)).kind = "dict"
    THEN NoMemoRun(root, Tail(input), Append(path, Head(input)),
                   Append(st, Head(input)), acc)
    ELSE IF Lookup(root, path, Head(input)).kind = "none"
    THEN NoMemoRun(root, Tail(input), <<>>, <<>>,
                   Append(acc, PushMiss(st, Head(input))))
    ELSE NoMemoRun(root, Tail(input), <<>>, <<>>,
                   Append(acc, <<Lookup(root, path, Head(input)).cmd,
                                 st \o <<Head(input)>>>>))

\* C16: the literal keys stored in the root node are unobservable: the
\* results in get() order, and the pending stack, are those of a translator
\* that never stores them.
C16_MemoUnobservable ==
    /\ AllResults =
          NoMemoRun(compile_keymap(keymap), pushed, <<>>, <<>>, <<>>).results
    /\ stack = NoMemoRun(compile_keymap(keymap), pushed, <<>>, <<>>, <<>>).stack

\* An unbound printable key was pushed at the root twice, the second time
\* finding itself stored there, and the two pushes gave the same literal
\* result.
C16_Witness ==
    /\ Len(pushed) >= 2
    /\ pushed[1] = "b" /\ pushed[2] = "b"
    /\ "b" \in DOMAIN ck
    /\ Len(AllResults) >= 2
    /\ AllResults[1] = <<character_cls, <<"b">>>>
    /\ AllResults[2] = <<character_cls, <<"b">>>>

(***************************************************************************)
(*                                Buffer                                   *)
(***************************************************************************)

\* Bounds of the buffer's model.
MaxItems == 3       \* number of push() calls in a behaviour
MaxFlushes == 3     \* number of flush() calls in a behaviour

\* Buffer.push(item)
BufferPush(b, item) == Append(b, item)

\* Buffer.clear()
BufferClear(b) == <<>>

\* Buffer.flush(): the items are written in queue order; os.write may raise
\* at the failAt-th item (0: no write fails).  Only a flush that wrote every
\* item reaches self.clear(); an OSError leaves the queue as it was.
BufferFlush(b, failAt) ==
    IF failAt \in 1..Len(b)
    THEN [written |-> SubSeq(b, 1, failAt - 1), buf |-> b, raised |-> TRUE]
    ELSE [written |-> b, buf |-> BufferClear(b), raised |-> FALSE]

\* push(item): item number bnext + 1, a text chunk or a capability.
BufPush ==
    /\ bnext < MaxItems
    /\ \E kind \in {"text", "cap"} :
           bbuf' = BufferPush(bbuf, [id |-> bnext + 1, kind |-> kind])
    /\ bnext' = bnext + 1
    /\ UNCHANGED <<bdev, bflushes>>

\* flush(), with or without a device write failure.
BufFlush ==
    /\ bflushes < MaxFlushes
    /\ \E failAt \in 0..Len(bbuf) :
           LET r == BufferFlush(bbuf, failAt)
           IN  /\ bdev' = bdev \o r.written
               /\ bbuf' = r.buf
    /\ bflushes' = bflushes + 1
    /\ UNCHANGED bnext

\* clear()
BufClear ==
    /\ bbuf' = BufferClear(bbuf)
    /\ UNCHANGED <<bdev, bnext, bflushes>>

\* C8: every pushed item is written to the device at most once, and the
\* items are written in the order they were pushed.
C8_WrittenOnceInOrder ==
    \A i, j \in 1..Len(bdev) : i < j => bdev[i].id < bdev[j].id

\* The control text of a capability is a sequence of bytes and delay markers
\* "$<n>" or "$<n*>" (delayprog, line 111).
IsMarker(tok) == tok \in {"$<5>", "$<5*>"}
IsFiller(tok) == tok = "pad"
CtlTexts ==
    {<<"c">>, <<"c", "$<5>">>, <<"c", "$<5*>">>, <<"c", "$<5>", "d">>}

\* int(m.group(1)) and b"*" in m.group(2) (lines 165-166)
DelayOf(m) == IF m \in {"$<5>", "$<5*>"} THEN 5 ELSE 0
Star(m) == m = "$<5*>"

\* ratedict (lines 84-107) maps the termios speed constants of the rates of
\* line 85 to their rates; ratedict.get(ospeed) is None for any other speed.
Speeds == {"B1200", "B921600"}
ratedict == [ospeed \in {"B1200"} |-> 1200]

\* prog.search(fmt): the index of the first marker of fmt, 0 if it has none.
RECURSIVE Search(_, _)
Search(fmt, i) ==
    IF i > Len(fmt) THEN 0
    ELSE IF IsMarker(fmt[i]) THEN i
    ELSE Search(fmt, i + 1)

\* PadChar.text(nchars): nchars filler bytes.
PadText(nchars) == [i \in 1..nchars |-> "pad"]

\* Lines 165-172, after the marker m: a proportional delay reads self.height,
\* which a Buffer does not have; filler is bps * delay / 1000 pad characters,
\* which needs the rate (None * delay raises); without a pad character the
\* process sleeps.
Delay(r, m, pad, ospeed) ==
    IF Star(m) THEN [r EXCEPT !.err = "AttributeError"]
    ELSE IF pad
    THEN IF ospeed \notin DOMAIN ratedict THEN [r EXCEPT !.err = "TypeError"]
         ELSE [r EXCEPT !.out =
                  @ \o PadText((ratedict[ospeed] * DelayOf(m)) \div 1000)]
    ELSE [r EXCEPT !.slept = @ + DelayOf(m)]

\* Buffer.__tputs(fmt); r is what the flush has written and slept so far.
RECURSIVE tputs(_, _, _, _, _)
tputs(fmt, x, r, pad, ospeed) ==
    IF r.err # "" THEN r
    ELSE IF x = 0 THEN [r EXCEPT !.out = @ \o fmt]
    ELSE tputs(SubSeq(fmt, x + 1, Len(fmt)),
               Search(SubSeq(fmt, x + 1, Len(fmt)), 1),
               Delay([r EXCEPT !.out = @ \o SubSeq(fmt, 1, x - 1)],
                     fmt[x], pad, ospeed),
               pad, ospeed)

\* Lines 175-179: the items in queue order, a capability through __tputs and
\* a text chunk encoded and written.
RECURSIVE FlushItems(_, _, _, _)
FlushItems(items, r, pad, ospeed) ==
    IF items = <<>> \/ r.err # "" THEN r
    ELSE FlushItems(
             Tail(items),
             IF Head(items).kind = "cap"
             THEN tputs(Head(items).text, Search(Head(items).text, 1), r, pad, ospeed)
             ELSE [r EXCEPT !.out = @ \o Head(items).text],
             pad, ospeed)

\* push() of a capability with one of the control texts, or of a text chunk.
PadPush ==
    /\ bnext < MaxItems
    /\ \/ \E text \in CtlTexts :
             bbuf' = BufferPush(bbuf, [kind |-> "cap", text |-> text])
       \/ bbuf' = BufferPush(bbuf, [kind |-> "text", text |-> <<"t">>])
    /\ bnext' = bnext + 1
    /\ obs' = [obs EXCEPT !.op = "push"]
    /\ UNCHANGED <<bdev, bflushes, con, term>>

\* flush() of the buffer of a console; self.clear() (line 180) is reached
\* only if no item raised.
PadFlush ==
    /\ bflushes < MaxFlushes
    /\ bbuf # <<>>
    /\ LET r == FlushItems(bbuf, [out |-> <<>>, slept |-> 0, err |-> ""],
                           "_pad_char" \in con.caps,
                           con.svtermstate.ospeed)
       IN  /\ bdev' = bdev \o r.out
           /\ bbuf' = IF r.err = "" THEN BufferClear(bbuf) ELSE bbuf
           /\ obs' = [op |-> "flush", ok |-> r.err = "", err |-> r.err,
                      queued |-> bbuf, out |-> r.out, slept |-> r.slept]
    /\ bflushes' = bflushes + 1
    /\ UNCHANGED <<bnext, con, term>>

\* The tokens of the queued items, in order.
RECURSIVE QueuedTokens(_)
QueuedTokens(items) ==
    IF items = <<>> THEN <<>>
    ELSE Head(items).text \o QueuedTokens(Tail(items))
IsControlByte(tok) == ~IsMarker(tok) /\ ~IsFiller(tok)

\* C24: flush() completes for every queued capability whose control text
\* declares a delay, fixed or proportional, with or without a pad character,
\* with the line speed known or not: it raises nothing, writes the control
\* bytes without the markers, writes filler only if a pad character is
\* supported and otherwise sleeps, and leaves the queue empty.
C24_FlushCompletes ==
    obs.op = "flush" =>
        /\ obs.err = ""
        /\ bbuf = <<>>
        /\ SelectSeq(obs.out, IsControlByte)
               = SelectSeq(QueuedTokens(obs.queued), IsControlByte)
        /\ \A i \in 1..Len(obs.out) : ~IsMarker(obs.out[i])
        /\ (\E i \in 1..Len(obs.out) : IsFiller(obs.out[i]))
               => "_pad_char" \in con.caps
        /\ ("_pad_char" \notin con.caps
               /\ \E i \in 1..Len(QueuedTokens(obs.queued)) :
                      IsMarker(QueuedTokens(obs.queued)[i]))
               => obs.slept > 0

(***************************************************************************)
(*                     The terminal and its capabilities                   *)
(***************************************************************************)

\* Python's s[lo:hi] on a sequence (indices from 0, negative ones from the end).
PyIdx(i, n) == IF i < 0 THEN Max(n + i, 0) ELSE Min(i, n)
PySlice(s, lo, hi) == SubSeq(s, PyIdx(lo, Len(s)) + 1, PyIdx(hi, Len(s)))
\* s[lo:]
PyFrom(s, lo) == SubSeq(s, PyIdx(lo, Len(s)) + 1, Len(s))
\* s[i] for 0 <= i < len(s)
PyAt(s, i) == s[i + 1]

ESC == "\\x1b"
NUL == "\\000"
BLANK == " "

\* The capability objects UnixConsole.__init__ creates, by attribute name.
CapNames ==
    {"_bell", "_cursor_invsible", "_clear_screen", "_cursor_normal",
     "_parm_left_cursor", "_cursor_left", "_parm_down_cursor", "_cursor_down",
     "_parm_right_cursor", "_cursor_right", "_cursor_address",
     "_parm_up_cursor", "_cursor_up", "_parm_delete_character",
     "_delete_character", "_clear_eol", "_column_address",
     "_parm_insert_character", "_insert_character", "_scroll_forward",
     "_scroll_reverse", "_keypad_local", "_keypad_xmit"}

\* An output item: a text chunk, or a capability invocation with its
\* parameters (a, b).
TextItem(t) == [c |-> "text", a |-> 0, b |-> 0, t |-> t]
CapItem(name, a, b) == [c |-> name, a |-> a, b |-> b, t |-> <<>>]

IsText(item) == item.c = "text"

BlankRow(w) == [i \in 1..w |-> BLANK]

\* A line as a row of w cells shows it.
Shown(line, w) == [i \in 1..w |-> IF i <= Len(line) THEN line[i] ELSE BLANK]

\* The cell at column col (from 0) of a row set to ch; a column past the
\* right margin holds nothing.
PutCell(row, col, ch) ==
    IF col + 1 \in DOMAIN row THEN [row EXCEPT ![col + 1] = ch] ELSE row

\* Insert a blank cell at col: the rest of the row moves right, the last
\* cell is lost.
InsertCell(row, col) ==
    [i \in DOMAIN row |->
        IF i < col + 1 THEN row[i] ELSE IF i = col + 1 THEN BLANK ELSE row[i - 1]]

\* Delete the cell at col: the rest of the row moves left, a blank enters.
DeleteCell(row, col) ==
    [i \in DOMAIN row |->
        IF i < col + 1 THEN row[i]
        ELSE IF i + 1 \in DOMAIN row THEN row[i + 1] ELSE BLANK]

\* Blank the cells from col to the right margin.
ClearFrom(row, col) == [i \in DOMAIN row |-> IF i < col + 1 THEN row[i] ELSE BLANK]

\* The grid scrolled up by one row (a line feed or an index on the last row).
ScrollUp(t) ==
    [t EXCEPT !.grid = Append(Tail(t.grid), BlankRow(t.W)), !.org = @ - 1]

\* The grid scrolled down by one row (a reverse index on the first row).
ScrollDown(t) ==
    [t EXCEPT !.grid = <<BlankRow(t.W)>> \o SubSeq(t.grid, 1, t.H - 1),
              !.org = @ + 1]

\* One character of a text chunk, as the terminal in raw mode (no output
\* post-processing) takes it.
TermChar(t, ch) ==
    IF ch = "\n"
    THEN IF t.row = t.H - 1 THEN ScrollUp(t) ELSE [t EXCEPT !.row = @ + 1]
    ELSE IF ch = "\r" THEN [t EXCEPT !.col = 0]
    ELSE [t EXCEPT !.grid[t.row + 1] = PutCell(@, t.col, ch), !.col = @ + 1]

RECURSIVE TermText(_, _)
TermText(t, text) ==
    IF text = <<>> THEN t ELSE TermText(TermChar(t, Head(text)), Tail(text))

\* One output item written to the device.  A capability the terminal lacks
\* has no control bytes and changes nothing.  `org` is the row of the grid
\* that holds the session's row 0 while movement is relative: a scroll moves
\* it, and so does a cursor-up that the top margin stops.
TermApply(t, item) ==
    LET n == item.c
    IN  IF IsText(item) THEN TermText(t, item.t)
        ELSE IF n \notin t.caps THEN t
        ELSE IF n \in {"_cursor_up", "_parm_up_cursor"}
        THEN [t EXCEPT !.row = Max(@ - item.a, 0),
                       !.org = @ + Max(item.a - t.row, 0)]
        ELSE IF n \in {"_cursor_down", "_parm_down_cursor"}
        THEN [t EXCEPT !.row = Min(@ + item.a, t.H - 1)]
        ELSE IF n \in {"_cursor_left", "_parm_left_cursor"}
        THEN [t EXCEPT !.col = Max(@ - item.a, 0)]
        ELSE IF n \in {"_cursor_right", "_parm_right_cursor"}
        THEN [t EXCEPT !.col = @ + item.a]
        ELSE IF n = "_cursor_address"
        THEN [t EXCEPT !.row = Max(Min(item.a, t.H - 1), 0), !.col = Max(item.b, 0)]
        ELSE IF n = "_column_address" THEN [t EXCEPT !.col = Max(item.a, 0)]
        ELSE IF n \in {"_insert_character", "_parm_insert_character"}
        THEN [t EXCEPT !.grid[t.row + 1] = InsertCell(@, t.col)]
        ELSE IF n \in {"_delete_character", "_parm_delete_character"}
        THEN [t EXCEPT !.grid[t.row + 1] = DeleteCell(@, t.col)]
        ELSE IF n = "_clear_eol"
        THEN [t EXCEPT !.grid[t.row + 1] = ClearFrom(@, t.col)]
        ELSE IF n = "_scroll_forward"
        THEN IF t.row = t.H - 1 THEN ScrollUp(t) ELSE [t EXCEPT !.row = @ + 1]
        ELSE IF n = "_scroll_reverse"
        THEN IF t.row = 0 THEN ScrollDown(t) ELSE [t EXCEPT !.row = @ - 1]
        ELSE IF n = "_clear_screen"
        THEN [t EXCEPT !.grid = [i \in 1..t.H |-> BlankRow(t.W)],
                       !.row = 0, !.col = 0, !.org = 0]
        ELSE IF n = "_cursor_invsible" THEN [t EXCEPT !.vis = FALSE]
        ELSE IF n = "_cursor_normal" THEN [t EXCEPT !.vis = TRUE]
        ELSE t

RECURSIVE TermWrite(_, _)
TermWrite(t, items) ==
    IF items = <<>> THEN t ELSE TermWrite(TermApply(t, Head(items)), Tail(items))

(***************************************************************************)
(*                              UnixConsole                                *)
(* The methods are operators from a console record s to the console record *)
(* after the call.  s.err names the exception a call raised ("" for none): *)
(* every step after a raise is skipped.  s.log lists the items the current *)
(* operation pushed on the output buffer and s.dev those it wrote to the   *)
(* device; s.wcl records its single-insertion line updates.                *)
(***************************************************************************)

Ok(s) == s.err = ""
Raise(s, e) == IF Ok(s) THEN [s EXCEPT !.err = e] ELSE s

\* Event(evt, None); the data of an event is a sequence, empty for None,
\* and its raw bytes are empty.
Event(evt) == [evt |-> evt, data |-> <<>>, raw |-> <<>>]

\* A capability object called with its parameters: TermCapability.__call__
\* queues the invocation on the output buffer.
Invoke(s, name, a, b) ==
    IF Ok(s)
    THEN [s EXCEPT !.buf = BufferPush(@, CapItem(name, a, b)),
                   !.log = Append(@, CapItem(name, a, b))]
    ELSE s

\* UnixConsole.__write(text)
write(s, text) ==
    IF Ok(s)
    THEN [s EXCEPT !.buf = BufferPush(@, TextItem(text)),
                   !.log = Append(@, TextItem(text))]
    ELSE s

\* UnixConsole.flushoutput()
flushoutput(s) ==
    IF Ok(s)
    THEN LET r == BufferFlush(s.buf, 0)
         IN  [s EXCEPT !.dev = @ \o r.written, !.buf = r.buf]
    ELSE s

\* self.__posxy = x, y
setposxy(s, x, y) == IF Ok(s) THEN [s EXCEPT !.posxy = <<x, y>>] ELSE s

\* UnixConsole.__hide_cursor()
hide_cursor_always(s) ==
    IF Ok(s)
    THEN [Invoke(s, "_cursor_invsible", 0, 0) EXCEPT !.cursor_visible = 0]
    ELSE s
hide_cursor(s) ==
    IF Ok(s) /\ s.cursor_visible = 1
    THEN [Invoke(s, "_cursor_invsible", 0, 0) EXCEPT !.cursor_visible = 0]
    ELSE s

\* UnixConsole.__show_cursor()
show_cursor(s) ==
    IF Ok(s) /\ s.cursor_visible = 0
    THEN [Invoke(s, "_cursor_normal", 0, 0) EXCEPT !.cursor_visible = 1]
    ELSE s

\* UnixConsole.set_cursor_vis(vis)
set_cursor_vis(s, vis) == IF vis = 1 THEN show_cursor(s) ELSE hide_cursor(s)

\* UnixConsole.__move_x_parm_cursor(x) and __move_x_cursor(x)
move_x(s, x) ==
    LET dx == x - s.posxy[1]
        parm == s.move_x = "__move_x_parm_cursor"
    IN  IF dx > 0
        THEN Invoke(s, IF parm THEN "_parm_right_cursor" ELSE "_cursor_right", dx, 0)
        ELSE IF dx < 0
        THEN Invoke(s, IF parm THEN "_parm_left_cursor" ELSE "_cursor_left", -dx, 0)
        ELSE s

\* UnixConsole.__move_y_parm_cursor(y) and __move_y_cursor(y)
move_y(s, y) ==
    LET dy == y - s.posxy[2]
        parm == s.move_y = "__move_y_parm_cursor"
    IN  IF dy > 0
        THEN Invoke(s, IF parm THEN "_parm_down_cursor" ELSE "_cursor_down", dy, 0)
        ELSE IF dy < 0
        THEN Invoke(s, IF parm THEN "_parm_up_cursor" ELSE "_cursor_up", -dy, 0)
        ELSE s

\* UnixConsole.__move_short(x, y)
move_short_absolute(s, x, y) == Invoke(s, "_cursor_address", y, x)
move_short(s, x, y) == move_y(move_x(s, x), y)

\* UnixConsole.__move_tall(x, y)
move_tall_transposed(s, x, y) ==
    IF ~(0 <= y - s.offset /\ y - s.offset < s.height)
    THEN Raise(s, "AssertionError")
    ELSE Invoke(s, "_cursor_address", x, y - s.offset)
move_tall(s, x, y) ==
    IF ~(0 <= y - s.offset /\ y - s.offset < s.height)
    THEN Raise(s, "AssertionError")
    ELSE Invoke(s, "_cursor_address", y - s.offset, x)

\* self.__move(x, y)
move(s, x, y) ==
    IF ~Ok(s) THEN s
    ELSE IF s.move = "__move_tall" THEN move_tall(s, x, y)
    ELSE move_short(s, x, y)

\* UnixConsole.move_cursor(x, y)
move_cursor(s, x, y) ==
    IF ~Ok(s) THEN s
    ELSE IF y < s.offset \/ y >= s.offset + s.height
    THEN [s EXCEPT !.event_queue = Append(@, Event("scroll"))]
    ELSE flushoutput(setposxy(move(s, x, y), x, y))

\* self.insert_character() and self.delete_character(): the single-cell
\* capability, or the parameterized one called with 1.
insert_character(s) ==
    IF s.insert_character = "_parm_insert_character"
    THEN Invoke(s, "_parm_insert_character", 1, 0)
    ELSE Invoke(s, "_insert_character", 0, 0)

delete_character(s) ==
    IF s.delete_character = "_parm_delete_character"
    THEN Invoke(s, "_parm_delete_character", 1, 0)
    ELSE Invoke(s, "_delete_character", 0, 0)

\* The first column where the lines differ or one of them ends; the scan
\* also stops at an ESC of the new line (lines 348-355).
RECURSIVE DiffPoint(_, _, _)
DiffPoint(oldline, newline, x) ==
    IF /\ x < Min(Len(oldline), Len(newline))
       /\ PyAt(oldline, x) = PyAt(newline, x)
       /\ PyAt(newline, x) # ESC
    THEN DiffPoint(oldline, newline, x + 1)
    ELSE x

\* What a line update is recorded as: the kind of each item it pushed.
ItemKind(item) ==
    IF IsText(item) THEN "text"
    ELSE IF item.c \in {"_cursor_left", "_parm_left_cursor",
                        "_cursor_right", "_parm_right_cursor"} THEN "hmove"
    ELSE IF item.c \in {"_cursor_up", "_parm_up_cursor",
                        "_cursor_down", "_parm_down_cursor"} THEN "vmove"
    ELSE IF item.c = "_cursor_address" THEN "address"
    ELSE IF item.c \in {"_insert_character", "_parm_insert_character"} THEN "insert"
    ELSE IF item.c \in {"_delete_character", "_parm_delete_character"} THEN "delete"
    ELSE item.c

\* newline is oldline with one character inserted at column x, the first
\* column where the two differ, and holds no ESC.
InsertedOneAt(oldline, newline, x) ==
    /\ Len(newline) = Len(oldline) + 1
    /\ x \in 0..Len(oldline)
    /\ \A i \in 1..x : oldline[i] = newline[i]
    /\ \A i \in (x + 1)..Len(oldline) : oldline[i] = newline[i + 1]
    /\ x < Len(oldline) => oldline[x + 1] # newline[x + 1]
    /\ \A i \in 1..Len(newline) : newline[i] # ESC

\* The record of a line update `after` that began in `before`: kept for the
\* updates that insert one character where insert-character is supported.
RecordUpdate(before, after, y, oldline, newline, tx) ==
    LET pushed_ == SubSeq(after.log, Len(before.log) + 1, Len(after.log))
        texts == SelectSeq(pushed_, IsText)
    IN  IF /\ \E x \in 0..Len(oldline) : InsertedOneAt(oldline, newline, x)
           /\ before.insert_character # None
        THEN [after EXCEPT !.wcl = @ \cup
                 {[y |-> y, oldline |-> oldline, newline |-> newline,
                   kinds |-> [i \in 1..Len(pushed_) |-> ItemKind(pushed_[i])],
                   texts |-> [i \in 1..Len(texts) |-> texts[i].t],
                   tx |-> tx]}]
        ELSE after

\* The column the single-insert strategy inserts at (lines 357-362): the
\* diff point x, or the cursor column px found at the start of the refresh.
InsertColumn(s, y, oldline, newline, px, x) ==
    IF /\ y = s.posxy[2]
       /\ x > s.posxy[1]
       /\ PySlice(oldline, px, x) = PySlice(newline, px + 1, x + 1)
    THEN px
    ELSE x

\* self.__write(newline[x]); self.__posxy = x + 1, y
WriteCharAt(s, y, newline, x) ==
    IF x >= Len(newline) THEN Raise(s, "IndexError")
    ELSE setposxy(write(s, <<PyAt(newline, x)>>), x + 1, y)

\* Lines 388-389: clear to the end of the line if the line got shorter.
ClearIfShorter(s, oldline, newline) ==
    IF Len(oldline) > Len(newline) THEN Invoke(s, "_clear_eol", 0, 0) ELSE s

\* Lines 394-398: after a line that holds an ESC the cursor is sent to the
\* left margin.
EscReset(s, y, newline) ==
    IF \E i \in 1..Len(newline) : newline[i] = ESC
    THEN move_cursor(s, 0, y) ELSE s

\* Lines 356-392, with x the column the scan of the two lines stopped at.
UpdateFrom(s, y, oldline, newline, px, x) ==
    LET ins == s.insert_character # None
        del == s.delete_character # None
        \* lines 356-366
        b1 == PyFrom(oldline, x) = PyFrom(newline, x + 1) /\ ins
        x1 == InsertColumn(s, y, oldline, newline, px, x)
        \* lines 367-370
        b2 == /\ x < Min(Len(oldline), Len(newline))
              /\ PyFrom(oldline, x + 1) = PyFrom(newline, x + 1)
        \* lines 371-385
        b3 == /\ del /\ ins
              /\ Len(newline) = s.width
              /\ x < Len(newline) - 2
              /\ PySlice(newline, x + 1, -1) = PySlice(oldline, x, -2)
        r == IF b1
             THEN WriteCharAt(insert_character(move(s, x1, y)), y, newline, x1)
             ELSE IF b2
             THEN WriteCharAt(move(s, x, y), y, newline, x)
             ELSE IF b3
             THEN WriteCharAt(
                      insert_character(
                          move(delete_character(
                                   setposxy(move(hide_cursor(s), s.width - 2, y),
                                            s.width - 2, y)),
                               x, y)),
                      y, newline, x)
             \* lines 386-392
             ELSE setposxy(
                      write(ClearIfShorter(move(hide_cursor(s), x, y),
                                           oldline, newline),
                            PyFrom(newline, x)),
                      Len(newline), y)
    IN  RecordUpdate(s, EscReset(r, y, newline), y, oldline, newline,
                     IF b1 THEN x1 ELSE x)

\* UnixConsole.__write_changed_line(y, oldline, newline, px)
write_changed_line(s, y, oldline, newline, px) ==
    IF Ok(s)
    THEN UpdateFrom(s, y, oldline, newline, px, DiffPoint(oldline, newline, 0))
    ELSE s

\* Lines 270-275: in short mode the displayed screen grows a row at a time,
\* each with a line feed, up to n rows.
AppendRow(s) ==
    IF Ok(s)
    THEN [s EXCEPT !.posxy = <<0, Len(s.screen)>>, !.screen = Append(@, <<>>)]
    ELSE s

RECURSIVE GrowShort(_, _)
GrowShort(s, n) ==
    IF Ok(s) /\ Len(s.screen) < n
    THEN GrowShort(
             AppendRow(write(move(hide_cursor(s), 0, Len(s.screen) - 1), <<"\n">>)),
             n)
    ELSE s

\* Lines 277-278: in tall mode the displayed screen is padded to n rows.
RECURSIVE PadTo(_, _)
PadTo(scr, n) == IF Len(scr) < n THEN PadTo(Append(scr, <<>>), n) ELSE scr

\* Lines 280-282: the display mode after a refresh with a screen of n rows.
GoTallOrShort(s, n) ==
    IF ~Ok(s) THEN s
    ELSE IF n > s.height
    THEN [s EXCEPT !.gone_tall = 1, !.move = "__move_tall"]
    ELSE [s EXCEPT !.gone_tall = 0, !.move = "__move_short"]
GoTall(s, n) ==
    IF Ok(s) /\ n > s.height
    THEN [s EXCEPT !.gone_tall = 1, !.move = "__move_tall"]
    ELSE s

\* Lines 290-296: the new offset.
NewOffsetOffByOne(offset, height, n, cy) ==
    IF cy < offset THEN cy
    ELSE IF cy >= offset + height THEN cy - height
    ELSE IF offset > 0 /\ n < offset + height THEN Max(n - height, 0)
    ELSE offset
NewOffsetSnapTop(offset, height, n, cy) ==
    IF cy < offset THEN cy
    ELSE IF cy >= offset + height THEN cy - height + 1
    ELSE IF offset > 0 /\ n < offset + height THEN 0
    ELSE offset
NewOffset(offset, height, n, cy) ==
    IF cy < offset THEN cy
    ELSE IF cy >= offset + height THEN cy - height + 1
    ELSE IF offset > 0 /\ n < offset + height THEN Max(n - height, 0)
    ELSE offset

\* Line 296: the third case appends an empty line to the caller's list.
AppendsLine(offset, height, n, cy) ==
    /\ ~(cy < offset) /\ ~(cy >= offset + height)
    /\ offset > 0 /\ n < offset + height

\* Lines 306-309: n reverse scrolls; each drops the last old row and puts an
\* empty one first (list.pop raises IndexError on an empty list).
RECURSIVE ScrollReverseLoop(_, _, _)
ScrollReverseLoop(s, oldscr, n) ==
    IF n = 0 \/ ~Ok(s) THEN [s |-> s, oldscr |-> oldscr]
    ELSE LET t == Invoke(s, "_scroll_reverse", 0, 0)
         IN  IF oldscr = <<>>
             THEN [s |-> Raise(t, "IndexError"), oldscr |-> oldscr]
             ELSE ScrollReverseLoop(
                      t, <<<<>>>> \o SubSeq(oldscr, 1, Len(oldscr) - 1), n - 1)

\* Lines 314-317: n forward scrolls; each drops the first old row and puts an
\* empty one last.
RECURSIVE ScrollForwardLoop(_, _, _)
ScrollForwardLoop(s, oldscr, n) ==
    IF n = 0 \/ ~Ok(s) THEN [s |-> s, oldscr |-> oldscr]
    ELSE LET t == Invoke(s, "_scroll_forward", 0, 0)
         IN  IF oldscr = <<>>
             THEN [s |-> Raise(t, "IndexError"), oldscr |-> oldscr]
             ELSE ScrollForwardLoop(t, Append(Tail(oldscr), <<>>), n - 1)

\* Lines 301-317: hardware scrolling.
HardwareScroll(s, oldscr, old_offset, offset) ==
    IF old_offset > offset /\ "_scroll_reverse" \in s.caps
    THEN ScrollReverseLoop(
             setposxy(Invoke(hide_cursor(s), "_cursor_address", 0, 0),
                      0, old_offset),
             oldscr, old_offset - offset)
    ELSE IF old_offset < offset /\ "_scroll_forward" \in s.caps
    THEN ScrollForwardLoop(
             setposxy(Invoke(hide_cursor(s), "_cursor_address", s.height - 1, 0),
                      0, old_offset + s.height - 1),
             oldscr, offset - old_offset)
    ELSE [s |-> s, oldscr |-> oldscr]

\* Lines 321-327: the rows i..n of the window, each rewritten if it changed.
RECURSIVE LineLoop(_, _, _, _, _, _, _)
LineLoop(s, i, n, offset, oldscr, newscr, px) ==
    IF i > n \/ ~Ok(s) THEN s
    ELSE LineLoop(
             IF oldscr[i] # newscr[i]
             THEN write_changed_line(s, offset + i - 1, oldscr[i], newscr[i], px)
             ELSE s,
             i + 1, n, offset, oldscr, newscr, px)

\* Lines 329-335: the old rows below the new window are cleared.
RECURSIVE ClearLoop(_, _, _)
ClearLoop(s, y, n) ==
    IF y < n /\ Ok(s)
    THEN ClearLoop(
             Invoke(setposxy(move(hide_cursor(s), 0, y), 0, y), "_clear_eol", 0, 0),
             y + 1, n)
    ELSE s

\* Lines 269-282: the displayed screen grown or padded, and the mode.
GrowAndGoTall(s, screen) ==
    IF s.gone_tall = 0
    THEN GoTall(GrowShort(s, Min(Len(screen), s.height)), Len(screen))
    ELSE GoTall([s EXCEPT !.screen = PadTo(@, Len(screen))], Len(screen))

\* self.__offset = offset (line 319)
StoreOffset(s, offset) == IF Ok(s) THEN [s EXCEPT !.offset = offset] ELSE s

\* self.screen = screen (line 339)
StoreScreen(s, screen) == IF Ok(s) THEN [s EXCEPT !.screen = screen] ELSE s

\* Lines 319-341, with h the console and the old rows after the scrolling.
Paint(h, height, offset, newscr, px, screen, cx, cy) ==
    flushoutput(
        move_cursor(
            StoreScreen(
                show_cursor(
                    ClearLoop(
                        LineLoop(StoreOffset(h.s, offset), 1,
                                 Min(height, Min(Len(h.oldscr), Len(newscr))),
                                 offset, h.oldscr, newscr, px),
                        Len(newscr), Len(h.oldscr))),
                screen),
            cx, cy))

\* Lines 284-341, with s the console after lines 269-282.
Redraw(s, screen, cx, cy, same) ==
    LET offset == NewOffset(s.offset, s.height, Len(screen), cy)
        screenA == IF AppendsLine(s.offset, s.height, Len(screen), cy)
                   THEN Append(screen, <<>>) ELSE screen
        selfscreen == IF same THEN screenA ELSE s.screen
        oldscr == PySlice(selfscreen, s.offset, s.offset + s.height)
        newscr == PySlice(screenA, offset, offset + s.height)
    IN  Paint(HardwareScroll(s, oldscr, s.offset, offset),
              s.height, offset, newscr, s.posxy[1], screenA, cx, cy)

\* UnixConsole.refresh(screen, c_xy).  `same` says that the caller passes the
\* list object the console already holds as self.screen.
refresh(s, screen, cx, cy, same) ==
    Redraw(GrowAndGoTall(s, screen), screen, cx, cy, same)

\* getheightwidth(): the size (height, width) of the terminal a console is
\* built on.
Sizes == {<<2, 3>>}

\* UnixConsole.prepare(), with getheightwidth() returning hw.
prepare(s, hw) ==
    Invoke([s EXCEPT !.screen = <<>>, !.height = hw[1], !.width = hw[2],
                     !.buf = BufferClear(@), !.posxy = <<0, 0>>,
                     !.gone_tall = 0, !.move = "__move_short", !.offset = 0,
                     !.old_sigwinch = "SIG_DFL", !.err = ""],
           "_keypad_xmit", 0, 0)

\* UnixConsole.restore()
restore(s) ==
    LET f == flushoutput(Invoke(s, "_keypad_local", 0, 0))
    IN  IF Ok(f) THEN [f EXCEPT !.old_sigwinch = None] ELSE f

\* UnixConsole.clear()
clear(s) ==
    LET c == Invoke(s, "_clear_screen", 0, 0)
    IN  IF Ok(c)
        THEN [c EXCEPT !.gone_tall = 1, !.move = "__move_tall",
                       !.posxy = <<0, 0>>, !.screen = <<>>]
        ELSE c

\* UnixConsole.repaint_prep()
repaint_prep(s) ==
    LET nuls == [i \in 1..s.width |-> NUL]
    IN  IF s.gone_tall = 0
        THEN [write(setposxy(s, 0, s.posxy[2]), <<"\r">>) EXCEPT
                 !.screen = [i \in 1..Len(s.screen) |-> nuls]]
        ELSE LET m == move(setposxy(s, 0, s.offset), 0, s.offset)
             IN  IF Ok(m) THEN [m EXCEPT !.screen = [i \in 1..s.height |-> nuls]]
                 ELSE m

\* Lines 577-579: the last nonblank row of the screen, -1 if there is none.
RECURSIVE LastNonblank(_, _)
LastNonblank(scr, y) ==
    IF y >= 0 /\ PyAt(scr, y) = <<>> THEN LastNonblank(scr, y - 1) ELSE y

\* UnixConsole.finish()
finish(s) ==
    LET y == LastNonblank(s.screen, Len(s.screen) - 1)
    IN  flushoutput(
            write(move(s, 0, Min(y, s.height + s.offset - 1)), <<"\n", "\r">>))

\* UnixConsole.beep()
beep(s) == flushoutput(Invoke(s, "_bell", 0, 0))

\* UnixConsole.__sigwinch(signum, frame), with getheightwidth() returning hw.
sigwinch(s, hw) ==
    [s EXCEPT !.height = hw[1], !.width = hw[2],
              !.event_queue = Append(@, Event("resize"))]

\* A refresh() during which SIGWINCH is delivered once.  The handler runs
\* between two statements of the call; ResizePoints are the lines before
\* which it runs: after the mode is chosen (lines 280-282), after the local
\* `height` is read (line 286), after the hardware scroll (lines 302-317)
\* and after the rows are drawn (lines 321-335).
ResizePoints == {284, 290, 319, 337}

\* Lines 319-335, with h the console and the old rows after the scrolling.
PaintRows(h, height, offset, newscr, px) ==
    ClearLoop(
        LineLoop(StoreOffset(h.s, offset), 1,
                 Min(height, Min(Len(h.oldscr), Len(newscr))),
                 offset, h.oldscr, newscr, px),
        Len(newscr), Len(h.oldscr))

\* Lines 337-341, with s the console after the rows are drawn.
PaintEnd(s, screen, cx, cy) ==
    flushoutput(move_cursor(StoreScreen(show_cursor(s), screen), cx, cy))

\* Lines 284-341 with the handler run before line p (p > 284); g is the
\* console at line 284, so g.height is the local `height` of line 286 and
\* the height after the handler is hw[1].
RedrawResized(g, screen, cx, cy, p, hw) ==
    LET offset == NewOffset(g.offset, g.height, Len(screen), cy)
        screenA == IF AppendsLine(g.offset, g.height, Len(screen), cy)
                   THEN Append(screen, <<>>) ELSE screen
        oldscr == PySlice(g.screen, g.offset, g.offset + g.height)
        newscr == PySlice(screenA, offset, offset + g.height)
    IN  IF p = 290
        THEN Paint(HardwareScroll(sigwinch(g, hw), oldscr, g.offset, offset),
                   g.height, offset, newscr, g.posxy[1], screenA, cx, cy)
        ELSE IF p = 319
        THEN Paint([HardwareScroll(g, oldscr, g.offset, offset) EXCEPT
                       !.s = sigwinch(@, hw)],
                   g.height, offset, newscr, g.posxy[1], screenA, cx, cy)
        ELSE PaintEnd(
                 sigwinch(PaintRows(HardwareScroll(g, oldscr, g.offset, offset),
                                    g.height, offset, newscr, g.posxy[1]),
                          hw),
                 screenA, cx, cy)

\* refresh(screen, c_xy) with the handler run before line p.
refresh_resized(s, screen, cx, cy, p, hw) ==
    IF p = 284
    THEN Redraw(sigwinch(GrowAndGoTall(s, screen), hw), screen, cx, cy, FALSE)
    ELSE RedrawResized(GrowAndGoTall(s, screen), screen, cx, cy, p, hw)

\* termios: the attributes of the terminal, as the settings a user chose
\* (base) and whether the flags of lines 454-462 are those of raw mode.
\* Cooked is what tcgetattr() returned when the console was constructed.
Cooked == [base |-> "sane", raw |-> FALSE]
AttrBases == {"sane", "noflow"}

\* Lines 453-462: the saved attributes with the flags of raw mode.
RawOf(attr) == [attr EXCEPT !.raw = TRUE]

\* Lines 230-235: how the cursor is moved along a line.
SelectMoveXEitherParm(caps) ==
    IF {"_parm_left_cursor", "_parm_right_cursor"} \cap caps # {}
    THEN "__move_x_parm_cursor"
    ELSE IF {"_cursor_left", "_cursor_right"} \subseteq caps
    THEN "__move_x_cursor" ELSE None
SelectMoveX(caps) ==
    IF {"_parm_left_cursor", "_parm_right_cursor"} \subseteq caps
    THEN "__move_x_parm_cursor"
    ELSE IF {"_cursor_left", "_cursor_right"} \subseteq caps
    THEN "__move_x_cursor" ELSE None

\* Lines 237-242: how the cursor is moved from line to line.
SelectMoveY(caps) ==
    IF {"_parm_up_cursor", "_parm_down_cursor"} \subseteq caps
    THEN "__move_y_parm_cursor"
    ELSE IF {"_cursor_up", "_cursor_down"} \subseteq caps
    THEN "__move_y_cursor" ELSE None

\* UnixConsole.__init__ for a terminal that supports the capabilities caps;
\* err is "InvalidTerminal" when the movement capabilities do not suffice.
Construct(caps) ==
    LET hx == SelectMoveX(caps)
        vy == SelectMoveY(caps)
    IN  [caps |-> caps,
         move_x |-> hx,
         move_y |-> vy,
         delete_character |->
             IF "_delete_character" \in caps THEN "_delete_character"
             ELSE IF "_parm_delete_character" \in caps
             THEN "_parm_delete_character" ELSE None,
         insert_character |->
             IF "_insert_character" \in caps THEN "_insert_character"
             ELSE IF "_parm_insert_character" \in caps
             THEN "_parm_insert_character" ELSE None,
         move |-> "__move_short",
         event_queue |-> <<>>,
         cursor_visible |-> 1,
         svtermstate |-> Cooked,
         buf |-> <<>>,
         \* set by prepare()
         screen |-> <<>>, height |-> 0, width |-> 0, posxy |-> <<0, 0>>,
         gone_tall |-> 0, offset |-> 0, old_sigwinch |-> None,
         \* the exception of the last call, and what the current call did
         err |-> IF hx = None \/ vy = None THEN "InvalidTerminal" ELSE "",
         log |-> <<>>, dev |-> <<>>, wcl |-> {}]

(***************************************************************************)
(*                      A console session on a terminal                    *)
(***************************************************************************)

\* terminfo: the capability sets of the terminals the console is built on.
\* Each is accepted by __init__.
CapsFull ==
    CapNames \ {"_cursor_left", "_cursor_right", "_cursor_up", "_cursor_down",
                "_parm_insert_character", "_parm_delete_character",
                "_column_address"}
CapsPlain ==
    {"_bell", "_cursor_invsible", "_cursor_normal", "_clear_screen",
     "_clear_eol", "_cursor_address", "_cursor_left", "_cursor_right",
     "_cursor_up", "_cursor_down", "_parm_insert_character",
     "_keypad_local", "_keypad_xmit"}
Profiles == {CapsFull, CapsPlain}

\* A terminal that moves the cursor by single cells and scrolls, and has no
\* cursor addressing, no clear-to-end-of-line and no cursor visibility.
CapsMoves ==
    {"_cursor_left", "_cursor_right", "_cursor_up", "_cursor_down",
     "_scroll_forward", "_scroll_reverse", "_keypad_local", "_keypad_xmit",
     "_clear_screen", "_bell"}

\* The eight movement capabilities, and the terminals that have any of
\* them together with every other capability.
MoveCaps ==
    {"_parm_left_cursor", "_parm_right_cursor", "_cursor_left", "_cursor_right",
     "_parm_up_cursor", "_parm_down_cursor", "_cursor_up", "_cursor_down"}
MoveProfiles == {(CapNames \ MoveCaps) \cup m : m \in SUBSET MoveCaps}

\* The rows of the terminal the cursor may be on when a session starts.
StartRows == {0, 1}

\* The lines and the screens handed to refresh().  A line is a sequence of
\* characters no longer than the terminal is wide.
Lines == {<<>>, <<"a">>, <<"a", "b">>, <<"a", "a", "b">>, <<"a", "b", "a">>,
          <<"b", "a", "b">>}
FirstLines == {<<>>, <<"a", "b">>}
Screens ==
    {<<l>> : l \in Lines}
      \cup {<<l, m>> : l \in FirstLines, m \in {<<>>, <<"a">>}}
      \cup {<<l, m, n>> : l \in FirstLines, m \in {<<"a">>, <<"a", "b">>},
                          n \in {<<>>, <<"b">>}}

\* The screens of the sessions that are about the calls, not the lines.
SmallScreens ==
    {<<l>> : l \in {<<>>, <<"a">>}}
      \cup {<<l, <<>>>> : l \in {<<>>, <<"a">>}}
      \cup {<<l, <<>>, <<>>>> : l \in {<<>>, <<"a">>}}

\* Screens of up to MaxTallRows rows, taller than the terminal, for the
\* sessions that are about the window.
MaxTallRows == 4
TallScreens ==
    {[i \in 1..n |-> IF i = 1 THEN l ELSE <<>>] :
        n \in 1..MaxTallRows, l \in {<<>>, <<"a">>}}

\* The one-row screens whose line is as wide as the terminal of PreparedCon.
FullLines == [1..3 -> {"a", "b"}]
FullLineScreens == {<<l>> : l \in FullLines}

\* The sizes a resized terminal may take.
Resizes == {<<2, 3>>, <<3, 3>>}

\* The cursors a screen may come with: a row of the screen, at the start or
\* at the end of its line.
Cursors(screen) ==
    {<<x, y>> \in (0..3) \X (0..(MaxTallRows - 1)) :
        y < Len(screen) /\ x \in {0, Len(screen[y + 1])}}

\* A fresh terminal of size hw with the cursor at the start of row r.
FreshTerm(caps, hw, r) ==
    [caps |-> caps, H |-> hw[1], W |-> hw[2],
     grid |-> [i \in 1..hw[1] |-> BlankRow(hw[2])],
     row |-> r, col |-> 0, vis |-> TRUE, org |-> r, attr |-> Cooked]

\* The terminal resized to hw.  How its rows reflow is the emulator's
\* business: the display is not followed past a resize.
LostOrigin == 99
TermResize(t, hw) ==
    [FreshTerm(t.caps, hw, 0) EXCEPT !.org = LostOrigin, !.vis = t.vis,
                                     !.attr = t.attr]

\* What is observed of the last call.
NoArg == [screen |-> <<>>, c |-> <<-1, -1>>]
NoAddr == <<-1, -1>>
NoObs ==
    [op |-> "init", ok |-> TRUE, arg |-> NoArg, rep |-> "no", out |-> <<>>,
     vis |-> -1, visBefore |-> 1, visSeq |-> <<>>, nscroll |-> 0,
     lastAddr |-> NoAddr, wcl |-> {}, unsup |-> {}, attrBefore |-> Cooked]

IsVis(item) == item.c \in {"_cursor_invsible", "_cursor_normal"}
IsAddr(item) == item.c = "_cursor_address"

Observe(op, s, t, arg, rep, vis) ==
    LET vs == SelectSeq(t.log, IsVis)
        as == SelectSeq(t.log, IsAddr)
    IN  [op |-> op, ok |-> Ok(t),
         arg |-> IF Ok(t) THEN arg ELSE NoArg,
         rep |-> rep,
         out |-> IF rep # "no" THEN t.log \o t.dev ELSE <<>>,
         vis |-> vis,
         visBefore |-> s.cursor_visible,
         visSeq |-> [i \in 1..Len(vs) |-> vs[i].c],
         nscroll |-> Len(t.event_queue) - Len(s.event_queue),
         lastAddr |-> IF as = <<>> THEN NoAddr
                      ELSE <<as[Len(as)].a, as[Len(as)].b>>,
         wcl |-> t.wcl,
         unsup |-> {t.log[i].c : i \in 1..Len(t.log)} \ (s.caps \cup {"text"}),
         attrBefore |-> IF op = "prepare" THEN term.attr ELSE obs.attrBefore]

\* The console after a call that left it as t: what the call wrote reaches
\* the terminal tm.  The row of the session's origin is followed while the
\* console moves relatively; in tall mode the origin is the top row.  What a
\* resized terminal shows is not followed until the next session.
Step(op, t, tm, arg, rep, vis) ==
    /\ con' = [t EXCEPT !.log = <<>>, !.dev = <<>>, !.wcl = {}]
    /\ term' = IF tm.org = LostOrigin THEN tm
               ELSE IF t.gone_tall = 1
               THEN [TermWrite(tm, t.dev) EXCEPT !.org = 0]
               ELSE TermWrite(tm, t.dev)
    /\ obs' = Observe(op, con, t, arg, rep, vis)

\* Between prepare() and restore(); a session that raised, or that finish()
\* has ended, is only restored.
Prepared == con.old_sigwinch # None
Ready == Prepared /\ Ok(con) /\ obs.op # "finish"

MaxRows == 3        \* rows of a list handed to refresh()
MaxEvents == 1      \* events queued and not yet taken
MaxPending == 2     \* items left on the buffer by calls that do not flush

\* clear(), repaint_prep() and set_cursor_vis() push without flushing.
Room == Len(con.buf) < MaxPending

Prepare ==
    /\ ~Prepared
    /\ \E r \in StartRows :
          LET hw == <<term.H, term.W>>
          IN  Step("prepare", prepare(con, hw),
                   [FreshTerm(term.caps, hw, r) EXCEPT
                       !.vis = term.vis, !.attr = RawOf(con.svtermstate)],
                   NoArg, "no", -1)

Restore ==
    /\ Prepared
    /\ Step("restore", restore([con EXCEPT !.err = ""]),
            [term EXCEPT !.attr = con.svtermstate], NoArg, "no", -1)

\* The attributes of the terminal changed from outside (stty) while no
\* session is prepared.
Stty ==
    /\ ~Prepared
    /\ Ok(con)
    /\ \E b \in AttrBases \ {term.attr.base} :
          /\ term' = [term EXCEPT !.attr = [base |-> b, raw |-> FALSE]]
          /\ UNCHANGED <<con, obs>>

\* refresh() with a list the caller has built anew.
RefreshOf(screens) ==
    /\ Ready
    /\ \E screen \in screens : \E c \in Cursors(screen) :
          Step("refresh", refresh(con, screen, c[1], c[2], FALSE), term,
               [screen |-> screen, c |-> c],
               IF obs.arg = [screen |-> screen, c |-> c] THEN "copy" ELSE "no", -1)

Refresh == RefreshOf(Screens)
RefreshTall == RefreshOf(TallScreens)
RefreshFull == RefreshOf(FullLineScreens)
RefreshSmall == RefreshOf(SmallScreens)

\* refresh() with the list the console holds since the last refresh().
RefreshSame ==
    /\ Ready
    /\ con.screen # <<>>
    /\ Len(con.screen) <= MaxRows
    /\ \E c \in Cursors(con.screen) :
          Step("refresh", refresh(con, con.screen, c[1], c[2], TRUE), term,
               [screen |-> con.screen, c |-> c],
               IF obs.arg.c = c THEN "same" ELSE "no", -1)

\* move_cursor() to a position of the screen shown.
MoveCursor ==
    /\ Ready
    /\ \E y \in 0..(Len(con.screen) - 1) : \E x \in 0..Len(con.screen[y + 1]) :
          /\ (y < con.offset \/ y >= con.offset + con.height)
                => Len(con.event_queue) < MaxEvents
          /\ Step("move_cursor", move_cursor(con, x, y), term, NoArg, "no", -1)

\* move_cursor() to any cell of the window of a console just prepared.
MaxCell == 2
MoveAnywhere ==
    /\ Ready
    /\ \E x \in 0..MaxCell, y \in 0..MaxCell :
          Step("move_cursor", move_cursor(con, x, y), term, NoArg, "no", -1)

Clear == Ready /\ Room /\ Step("clear", clear(con), term, NoArg, "no", -1)

RepaintPrep == Ready /\ Room /\ Step("repaint_prep", repaint_prep(con), term, NoArg, "no", -1)

Finish == Ready /\ Step("finish", finish(con), term, NoArg, "no", -1)

SetCursorVis ==
    /\ Ready
    /\ Room
    /\ \E v \in {0, 1} :
          Step("set_cursor_vis", set_cursor_vis(con, v), term, NoArg, "no", v)

Beep == Ready /\ Step("beep", beep(con), term, NoArg, "no", -1)

\* SIGWINCH delivered between two calls, after the terminal took size hw.
Sigwinch ==
    /\ Prepared
    /\ Len(con.event_queue) < MaxEvents
    /\ \E hw \in Resizes \ {<<term.H, term.W>>} :
          Step("sigwinch", sigwinch(con, hw), TermResize(term, hw), NoArg, "no", -1)

\* refresh() of a new list, with the terminal resized and SIGWINCH delivered
\* during the call.
RefreshResized ==
    /\ Ready
    /\ con.event_queue = <<>>
    /\ \E screen \in TallScreens : \E c \in Cursors(screen) :
       \E p \in ResizePoints : \E hw \in Resizes \ {<<term.H, term.W>>} :
          Step("refresh_resized", refresh_resized(con, screen, c[1], c[2], p, hw),
               TermResize(term, hw), [screen |-> screen, c |-> c], "no", -1)

\* get_event() finding an event queued: it returns the first.
TakeEvent ==
    /\ Ready
    /\ con.event_queue # <<>>
    /\ Step("get_event", [con EXCEPT !.event_queue = Tail(@)], term, NoArg, "no", -1)

(***************************************************************************)
(*                     Properties of the console session                   *)
(***************************************************************************)

Refreshed == obs.op = "refresh" /\ obs.ok
Cx == obs.arg.c[1]
Cy == obs.arg.c[2]

\* The rows of the window that the screen fills, counted from 0.
WindowRows == 0..(Min(con.height, Len(con.screen) - con.offset) - 1)

\* C2: when refresh(screen, cursor) has returned, every row offset+i of the
\* window displays screen[offset+i] on the terminal's grid.
C2_DisplayShowsScreen ==
    Refreshed =>
        \A i \in WindowRows :
            /\ term.org + i + 1 \in 1..term.H
            /\ term.grid[term.org + i + 1]
                   = Shown(con.screen[con.offset + i + 1], term.W)

\* C3: after every refresh(screen, (cx, cy)) that returns, the stored offset
\* satisfies offset <= cy < offset + height.
C3_CursorInWindow ==
    Refreshed => con.offset <= Cy /\ Cy < con.offset + con.height

\* A refresh has returned with the window moved down the screen to hold the
\* cursor.
C3_Witness == Refreshed /\ con.offset > 0 /\ Cy = con.offset + con.height - 1

\* C19 as stated: the offset a refresh stores is cy if cy is above the
\* window, cy - height + 1 if it is below, 0 if it is inside, offset > 0 and
\* the whole screen fits in the terminal height, and else the old offset.
StatedOffset(offset, height, n, cy) ==
    IF cy < offset THEN cy
    ELSE IF cy >= offset + height THEN cy - height + 1
    ELSE IF offset > 0 /\ n <= height THEN 0
    ELSE offset
C19_OffsetAsStated ==
    [][(obs'.op = "refresh" /\ obs'.ok) =>
          con'.offset = StatedOffset(con.offset, con.height,
                                     Len(obs'.arg.screen), obs'.arg.c[2])]_vars

\* C19: the offset a refresh stores is cy if cy is above the window,
\* cy - height + 1 if it is below, max(len(screen) - height, 0) if it is
\* inside, offset > 0 and the screen ends above the bottom of the window
\* (0 when the whole screen fits in the terminal height), and else the old
\* offset.
PolicyOffset(offset, height, n, cy) ==
    IF cy < offset THEN cy
    ELSE IF cy >= offset + height THEN cy - height + 1
    ELSE IF offset > 0 /\ n < offset + height
    THEN (IF n <= height THEN 0 ELSE n - height)
    ELSE offset
C19_OffsetPolicy ==
    [][(obs'.op = "refresh" /\ obs'.ok) =>
          con'.offset = PolicyOffset(con.offset, con.height,
                                     Len(obs'.arg.screen), obs'.arg.c[2])]_vars

\* A refresh has returned that found the cursor inside the window and the
\* screen, taller than the terminal, ending above the bottom of the window:
\* it appended a line to the list it was given and moved the window up to
\* the end of the screen.
C19_Witness ==
    /\ Refreshed
    /\ Len(obs.arg.screen) > con.height
    /\ Len(con.screen) = Len(obs.arg.screen) + 1
    /\ con.offset = Len(obs.arg.screen) - con.height
    /\ con.offset > 0

\* The update of oldline to newline takes the insert+delete strategy: the
\* two earlier strategies do not apply, delete- and insert-character are
\* available, the new line is as wide as the terminal, the first differing
\* column x is below len(new) - 2 and new[x+1:-1] = old[x:-2].
SelectsInsertDelete(s, oldline, newline) ==
    LET x == DiffPoint(oldline, newline, 0)
    IN  /\ ~(PyFrom(oldline, x) = PyFrom(newline, x + 1)
                /\ s.insert_character # None)
        /\ ~(x < Min(Len(oldline), Len(newline))
                /\ PyFrom(oldline, x + 1) = PyFrom(newline, x + 1))
        /\ s.delete_character # None /\ s.insert_character # None
        /\ Len(newline) = s.width
        /\ x < Len(newline) - 2
        /\ PySlice(newline, x + 1, -1) = PySlice(oldline, x, -2)

\* C20: whenever the update of a displayed line takes the insert+delete
\* strategy, the terminal shows exactly the new line afterwards.
C20_InsertDeleteShowsNewLine ==
    [][(/\ obs'.op = "refresh" /\ obs'.ok
        /\ Len(con.screen) = 1 /\ Len(con'.screen) = 1
        /\ term.grid[term.org + 1] = Shown(con.screen[1], term.W)
        /\ SelectsInsertDelete(con, con.screen[1], con'.screen[1]))
       => term'.grid[term'.org + 1] = Shown(con'.screen[1], term'.W)]_vars

C5_TallIsKept ==
    [][(con.gone_tall = 1 /\ obs'.op # "prepare")
          => (con'.gone_tall = 1 /\ con'.move = "__move_tall")]_vars

\* In tall mode, a refresh of a screen no taller than the terminal has
\* returned.
C5_Witness ==
    /\ Refreshed
    /\ con.gone_tall = 1
    /\ con.move = "__move_tall"
    /\ Len(obs.arg.screen) <= con.height

\* C6: when refresh(screen, (cx, cy)) has returned, the tracked cursor is
\* (cx, cy), refresh has queued no scroll event, and the cursor was last
\* sent to row cy - offset and column cx: by the last cursor address in tall
\* mode, by relative moves from the session's origin in short mode.
C6_CursorWhereAsked ==
    Refreshed =>
        /\ con.posxy = obs.arg.c
        /\ obs.nscroll = 0
        /\ con.gone_tall = 1 => obs.lastAddr = <<Cy - con.offset, Cx>>
        /\ con.gone_tall = 0 =>
              /\ term.row = term.org + Cy - con.offset
              /\ term.col = Cx

\* A refresh has returned in tall mode with the window moved down the
\* screen and the cursor off the left margin.
C6_Witness ==
    Refreshed /\ con.gone_tall = 1 /\ con.offset > 0 /\ Cx > 0 /\ Cy > con.offset

\* C7: a line update whose new line is the old line with one character
\* inserted at the first differing column, where insert-character is
\* supported, invokes insert-character once and writes, as its only text,
\* that one character, at a column where inserting it gives the new line;
\* it invokes no clear-to-end-of-line.
C7_SingleInsertWritesInserted ==
    \A r \in obs.wcl :
        LET x == DiffPoint(r.oldline, r.newline, 0)
        IN  /\ r.texts = <<<<r.newline[x + 1]>>>>
            /\ Cardinality({i \in 1..Len(r.kinds) : r.kinds[i] = "insert"}) = 1
            /\ \A i \in 1..Len(r.kinds) : r.kinds[i] # "_clear_eol"
            /\ r.tx \in 0..Len(r.oldline)
            /\ r.newline = SubSeq(r.oldline, 1, r.tx) \o <<r.newline[x + 1]>>
                             \o SubSeq(r.oldline, r.tx + 1, Len(r.oldline))

\* C9: in every call, cursor-invisible is invoked only while the flag says
\* visible and cursor-normal only while it says hidden: the invocations of a
\* call alternate, beginning with the one the flag allows, and leave the
\* flag at the visibility last invoked; a set_cursor_vis() that asks for the
\* visibility the flag already has invokes neither.
C9_VisibilityAlternates ==
    LET hide == "_cursor_invsible"
        show == "_cursor_normal"
        first == IF obs.visBefore = 1 THEN hide ELSE show
        second == IF obs.visBefore = 1 THEN show ELSE hide
    IN  /\ \A i \in 1..Len(obs.visSeq) :
              obs.visSeq[i] = IF i % 2 = 1 THEN first ELSE second
        /\ con.cursor_visible = (obs.visBefore + Len(obs.visSeq)) % 2
        /\ (obs.op = "set_cursor_vis" /\ obs.vis = obs.visBefore)
              => obs.visSeq = <<>>

\* A set_cursor_vis(0) has found the cursor hidden and invoked nothing.
C9_Witness ==
    /\ obs.op = "set_cursor_vis"
    /\ obs.vis = 0
    /\ obs.visBefore = 0
    /\ obs.visSeq = <<>>

(***************************************************************************)
(*                     get_event() and the resize signal                   *)
(* ev.pc is where get_event() stands: "idle" outside the call, "read" in   *)
(* os.read().  ev.block is the argument of the call and ev.ret how the     *)
(* last call ended: with an event, with None or with an exception.  ev.fd  *)
(* holds the bytes that reached the input descriptor,    *)
(* ev.part the bytes the event queue holds of an unfinished key.  ev.placed *)
(* lists the events put on the queue and ev.returned those get_event()     *)
(* returned; ev.intr says that a signal found the read blocked.  ev.last   *)
(* is the event the last getpending() returned and ev.ndrain the number of *)
(* getpending() calls.                                                     *)
(***************************************************************************)

MaxBytes == 3       \* bytes that reach the input descriptor
MaxSignals == 2     \* SIGWINCH deliveries

Bytes == {"a", "ESC"}

KeyEvent(raw) == [evt |-> "key", data |-> raw, raw |-> raw]

\* What getpending() has returned: nothing yet.
NoEvent == [evt |-> None, data |-> <<>>, raw |-> <<>>]

InitEv ==
    [pc |-> "idle", fd |-> <<>>, part |-> <<>>, placed |-> <<>>,
     returned |-> <<>>, nbytes |-> 0, nsig |-> 0, intr |-> FALSE,
     block |-> 1, ret |-> "no", last |-> NoEvent, ndrain |-> 0]

\* EventQueue.push(char): a byte that begins a key sequence is held, any
\* other byte ends a key and queues its event.
EventQueuePush(r, b) ==
    IF r.e.part = <<>> /\ b = "ESC"
    THEN [r EXCEPT !.e.part = <<b>>]
    ELSE [r EXCEPT !.s.event_queue = Append(@, KeyEvent(r.e.part \o <<b>>)),
                   !.e.placed = Append(@, KeyEvent(r.e.part \o <<b>>)),
                   !.e.part = <<>>]

\* UnixConsole.push_char(char)
push_char(r, b) == EventQueuePush(r, b)

\* return self.event_queue.get(); EventQueue.get() returns None when the
\* queue is empty.
ReturnEventKept(r) ==
    IF r.s.event_queue = <<>>
    THEN [r EXCEPT !.e.pc = "idle", !.e.ret = "none"]
    ELSE [r EXCEPT !.e.returned = Append(@, Head(r.s.event_queue)),
                   !.e.pc = "idle", !.e.ret = "event"]
ReturnEvent(r) ==
    IF r.s.event_queue = <<>>
    THEN [r EXCEPT !.e.pc = "idle", !.e.ret = "none"]
    ELSE [r EXCEPT !.s.event_queue = Tail(@),
                   !.e.returned = Append(@, Head(r.s.event_queue)),
                   !.e.pc = "idle", !.e.ret = "event"]

\* Lines 500-503, 516: the test of the outer loop, which either ends the
\* call or enters os.read().
LoopTest(r) ==
    IF r.s.event_queue # <<>> THEN ReturnEvent(r) ELSE [r EXCEPT !.e.pc = "read"]

\* Lines 512-516: os.read() returned and its byte was pushed.
AfterRead(r) == IF r.e.block = 0 THEN ReturnEvent(r) ELSE LoopTest(r)

\* Lines 505-509: os.read() raised EINTR.
OnEINTR(r) ==
    IF r.s.event_queue # <<>> THEN ReturnEvent(r) ELSE [r EXCEPT !.e.pc = "read"]

\* The signal handler has run: __sigwinch queued a resize event.
Handled(hw) ==
    [s |-> sigwinch(con, hw),
     e |-> [ev EXCEPT !.placed = Append(@, Event("resize")),
                      !.nsig = @ + 1,
                      !.intr = @ \/ ev.pc = "read"]]

EvStep(r) ==
    /\ con' = r.s
    /\ ev' = r.e
    /\ UNCHANGED <<term, obs>>

\* A byte reaches the input descriptor.
Arrive ==
    /\ ev.nbytes < MaxBytes
    /\ \E b \in Bytes :
          EvStep([s |-> con,
                  e |-> [ev EXCEPT !.fd = Append(@, b), !.nbytes = @ + 1]])

\* get_event(block) is called.
GetEvent ==
    /\ ev.pc = "idle"
    /\ \E block \in {0, 1} :
          EvStep(LoopTest([s |-> con,
                           e |-> [ev EXCEPT !.block = block, !.ret = "no"]]))

\* os.read() returns a byte: push_char(), then lines 512-516.
ReadByte ==
    /\ ev.pc = "read"
    /\ ev.fd # <<>>
    /\ EvStep(AfterRead(push_char([s |-> con, e |-> [ev EXCEPT !.fd = Tail(@)]],
                                  Head(ev.fd))))

\* Lines 510-511: os.read() fails with an error other than EINTR, which
\* get_event() raises again.
ReadFails ==
    /\ ev.pc = "read"
    /\ EvStep([s |-> con, e |-> [ev EXCEPT !.pc = "idle", !.ret = "raise"]])

\* SIGWINCH outside the read, or in a read that the interpreter retries
\* once the handler has returned.
SigwinchRetried ==
    /\ ev.nsig < MaxSignals
    /\ \E hw \in Resizes : EvStep(Handled(hw))

\* SIGWINCH in a read that fails with EINTR once the handler has returned.
SigwinchEINTR ==
    /\ ev.nsig < MaxSignals
    /\ ev.pc = "read"
    /\ \E hw \in Resizes : EvStep(OnEINTR(Handled(hw)))

MaxDrains == 2      \* getpending() calls

\* str(raw, self.encoding, "replace"): a byte that the encoding does not
\* define becomes the replacement character.
DecodeByte(b) == IF b = "xFF" THEN "uFFFD" ELSE b
Decode(raw) == [i \in 1..Len(raw) |-> DecodeByte(raw[i])]

\* The data of Event("resize", None) and Event("scroll", None) is None.
DataIsNone(e) == e.evt # "key"

\* Lines 593-596: the queue q drained into the event e.  Adding None to a
\* string raises TypeError, after get() has taken the event off the queue.
RECURSIVE DrainLoop(_, _)
DrainLoop(q, e) ==
    IF q = <<>> THEN [q |-> q, e |-> e, err |-> ""]
    ELSE IF DataIsNone(Head(q)) THEN [q |-> Tail(q), e |-> e, err |-> "TypeError"]
    ELSE DrainLoop(Tail(q),
                   [e EXCEPT !.data = @ \o Head(q).data, !.raw = @ \o @])

\* Lines 598-603, with d the outcome of the loop: FIONREAD tells how many
\* bytes the descriptor holds and os.read() takes them all.
ReadPending(r, d) ==
    IF d.err # ""
    THEN [r EXCEPT !.s.event_queue = d.q, !.e.ret = "raise",
                   !.e.last = NoEvent, !.e.ndrain = @ + 1]
    ELSE [r EXCEPT !.s.event_queue = d.q, !.e.fd = <<>>, !.e.ret = "pending",
                   !.e.last = [d.e EXCEPT !.data = @ \o Decode(r.e.fd),
                                          !.raw = @ \o r.e.fd],
                   !.e.ndrain = @ + 1]

\* UnixConsole.getpending()
getpending(r) ==
    ReadPending(r, DrainLoop(r.s.event_queue, [Event("key") EXCEPT !.raw = <<>>]))

GetPending ==
    /\ ev.pc = "idle"
    /\ ev.ndrain < MaxDrains
    /\ EvStep(getpending([s |-> con, e |-> ev]))

RECURSIVE ConcatData(_)
ConcatData(q) == IF q = <<>> THEN <<>> ELSE Head(q).data \o ConcatData(Tail(q))
RECURSIVE ConcatRaw(_)
ConcatRaw(q) == IF q = <<>> THEN <<>> ELSE Head(q).raw \o ConcatRaw(Tail(q))

\* C17: getpending() returns one key event whose data are the data of the
\* queued events, in queue order, followed by the decoded input that was
\* available, and whose raw bytes are the raw bytes of the queued events
\* followed by the input read; it leaves the queue empty, whatever events
\* were queued.
C17_PendingMerged ==
    [][ev'.ndrain = ev.ndrain + 1 =>
          /\ ev'.ret = "pending"
          /\ ev'.last.evt = "key"
          /\ ev'.last.data = ConcatData(con.event_queue) \o Decode(ev.fd)
          /\ ev'.last.raw = ConcatRaw(con.event_queue) \o ev.fd
          /\ con'.event_queue = <<>>]_vars

\* C10: whatever the interleaving of arriving bytes, resize signals and
\* get_event() calls, the events get_event() has returned, followed
\* by those still queued, are the events placed on the queue, each once and
\* in the order they were placed.
C10_ReturnedOnceInOrder == ev.returned \o con.event_queue = ev.placed

\* A resize signal found the read blocked, and get_event() has returned the
\* resize event and a key event.
C10_Witness ==
    /\ ev.intr
    /\ \E i, j \in 1..Len(ev.returned) :
          ev.returned[i].evt = "resize" /\ ev.returned[j].evt = "key"
    /\ ev.pc = "idle"

\* C18: after prepare() and then restore() the terminal has the attributes
\* that were in effect immediately before that prepare(), whatever changed
\* them since the console was constructed, and the resize handler that
\* prepare() installed is installed no more.
C18_AttributesRestored ==
    (obs.op = "restore" /\ obs.ok) =>
        (term.attr = obs.attrBefore /\ con.old_sigwinch = None)

\* C13: whatever the capability set accepted at construction and whatever
\* the calls of a session, no call invokes a capability that the terminal
\* does not support.
C13_OnlySupportedInvoked == obs.unsup = {}

\* The axis strategies that lines 229-242 are to select for a capability set.
AxisX(caps) ==
    IF {"_parm_left_cursor", "_parm_right_cursor"} \subseteq caps
    THEN "__move_x_parm_cursor"
    ELSE IF {"_cursor_left", "_cursor_right"} \subseteq caps
    THEN "__move_x_cursor" ELSE None
AxisY(caps) ==
    IF {"_parm_up_cursor", "_parm_down_cursor"} \subseteq caps
    THEN "__move_y_parm_cursor"
    ELSE IF {"_cursor_up", "_cursor_down"} \subseteq caps
    THEN "__move_y_cursor" ELSE None

\* C14: construction raises InvalidTerminal exactly when, on one axis,
\* neither the parameterized pair nor the single-cell pair of movement
\* capabilities is whole; otherwise each axis moves by the parameterized
\* pair if it is whole and else by the single-cell pair, and a move invokes
\* supported capabilities only and brings the terminal's cursor to the
\* cell asked for.
C14_AxisStrategies ==
    /\ con.err = "InvalidTerminal" <=>
          \/ /\ ~({"_parm_left_cursor", "_parm_right_cursor"} \subseteq con.caps)
             /\ ~({"_cursor_left", "_cursor_right"} \subseteq con.caps)
          \/ /\ ~({"_parm_up_cursor", "_parm_down_cursor"} \subseteq con.caps)
             /\ ~({"_cursor_up", "_cursor_down"} \subseteq con.caps)
    /\ Ok(con) =>
          /\ con.move_x = AxisX(con.caps) /\ con.move_x # None
          /\ con.move_y = AxisY(con.caps) /\ con.move_y # None
    /\ obs.op = "move_cursor" =>
          /\ obs.unsup = {}
          /\ <<term.col, term.row>> = con.posxy

\* A terminal with the parameterized pair on the vertical axis only has
\* been moved, by both strategies, to the far corner of the window.
C14_Witness ==
    /\ obs.op = "move_cursor"
    /\ con.move_x = "__move_x_cursor"
    /\ con.move_y = "__move_y_parm_cursor"
    /\ "_parm_left_cursor" \in con.caps
    /\ con.posxy = <<MaxCell, MaxCell>>
    /\ <<term.col, term.row>> = <<MaxCell, MaxCell>>

\* C21: in every session of prepare, refresh, clear and finish calls whose
\* cursor rows lie inside their screens, the bounds assertion of __move_tall
\* (line 440) never fails: no call ends with an AssertionError.
C21_TallMoveInBounds == con.err # "AssertionError"

\* C22: a refresh(screen, (cx, cy)) during which the resize handler ran
\* completes without a failed bounds assertion, and when it returns
\* offset <= cy < offset + height holds for the height then in effect.
C22_ResizedRefreshInWindow ==
    obs.op = "refresh_resized" =>
        /\ obs.ok
        /\ con.offset <= Cy /\ Cy < con.offset + con.height

\* C23: refresh(screen, cursor) leaves the caller's list as it was passed.
\* Line 339 makes self.screen the caller's list, so when refresh has returned
\* the list the console holds has the length and the lines of the argument.
C23_CallerScreenUnchanged == Refreshed => con.screen = obs.arg.screen

\* C11: when a resize signal has interrupted the blocked read of get_event()
\* and left an event on the queue, get_event() returns that event without
\* reading again: it never stands in os.read() while an event is queued.
C11_QueuedEventEndsTheRead == ev.pc = "read" => con.event_queue = <<>>

\* C12: get_event(block=0) called with no event queued and no input
\* available returns without waiting: it never stands in os.read() with
\* nothing to read.
C12_NonBlockingNeverWaits == ~(ev.pc = "read" /\ ev.block = 0 /\ ev.fd = <<>>)

(***************************************************************************)
(*                           Specifications                                *)
(***************************************************************************)

\* KeymapTranslator.__init__
InitKT ==
    /\ keymap \in Keymaps
    /\ ck = compile_keymap(keymap)
    /\ k = <<>>
    /\ stack = <<>>
    /\ results = <<>>
    /\ pushed = <<>>
    /\ got = <<>>

\* The translator of a specification that is about another subsystem.
IdleKT ==
    /\ keymap = {}
    /\ ck = <<>>
    /\ k = <<>>
    /\ stack = <<>>
    /\ results = <<>>
    /\ pushed = <<>>
    /\ got = <<>>

\* Buffer.__init__
InitBuf ==
    /\ bbuf = <<>>
    /\ bdev = <<>>
    /\ bnext = 0
    /\ bflushes = 0

InitCon ==
    \E caps \in Profiles, hw \in Sizes, r \in StartRows :
        /\ con = Construct(caps)
        /\ term = FreshTerm(caps, hw, r)
        /\ obs = NoObs

IdleCon ==
    /\ con = Construct(CapsFull)
    /\ term = FreshTerm(CapsFull, <<2, 3>>, 0)
    /\ obs = NoObs

\* A console that prepare() has readied, with no input yet.
PreparedCon ==
    /\ con = [prepare(Construct(CapsFull), <<2, 3>>) EXCEPT !.log = <<>>]
    /\ term = [FreshTerm(CapsFull, <<2, 3>>, 0) EXCEPT !.attr = RawOf(Cooked)]
    /\ obs = NoObs
    /\ ev = InitEv

InitKTSpec == InitKT /\ InitBuf /\ IdleCon /\ ev = InitEv
NextKT ==
    \/ \E key \in Keys : push(key) /\ UNCHANGED <<bufVars, conVars, ev>>
    \/ get /\ UNCHANGED <<bufVars, conVars, ev>>
SpecKT == InitKTSpec /\ [][NextKT]_vars

InitBufSpec == IdleKT /\ InitBuf /\ IdleCon /\ ev = InitEv
NextBuf ==
    \/ BufPush /\ UNCHANGED <<ktVars, conVars, ev>>
    \/ BufFlush /\ UNCHANGED <<ktVars, conVars, ev>>
    \/ BufClear /\ UNCHANGED <<ktVars, conVars, ev>>
SpecBuf == InitBufSpec /\ [][NextBuf]_vars

InitConSpec == IdleKT /\ InitBuf /\ InitCon /\ ev = InitEv

\* The sessions that draw screens: prepare, refresh, move_cursor and clear.
NextCon ==
    \/ Prepare /\ UNCHANGED <<ktVars, bufVars, ev>>
    \/ Restore /\ UNCHANGED <<ktVars, bufVars, ev>>
    \/ Refresh /\ UNCHANGED <<ktVars, bufVars, ev>>
    \/ RefreshSame /\ UNCHANGED <<ktVars, bufVars, ev>>
    \/ MoveCursor /\ UNCHANGED <<ktVars, bufVars, ev>>
    \/ Clear /\ UNCHANGED <<ktVars, bufVars, ev>>
    \/ TakeEvent /\ UNCHANGED <<ktVars, bufVars, ev>>
SpecCon == InitConSpec /\ [][NextCon]_vars

\* The sessions of every call, on small screens, with the terminal resized.
NextSession ==
    \/ Prepare /\ UNCHANGED <<ktVars, bufVars, ev>>
    \/ Restore /\ UNCHANGED <<ktVars, bufVars, ev>>
    \/ RefreshSmall /\ UNCHANGED <<ktVars, bufVars, ev>>
    \/ RefreshSame /\ UNCHANGED <<ktVars, bufVars, ev>>
    \/ MoveCursor /\ UNCHANGED <<ktVars, bufVars, ev>>
    \/ Clear /\ UNCHANGED <<ktVars, bufVars, ev>>
    \/ RepaintPrep /\ UNCHANGED <<ktVars, bufVars, ev>>
    \/ Finish /\ UNCHANGED <<ktVars, bufVars, ev>>
    \/ SetCursorVis /\ UNCHANGED <<ktVars, bufVars, ev>>
    \/ Beep /\ UNCHANGED <<ktVars, bufVars, ev>>
    \/ Sigwinch /\ UNCHANGED <<ktVars, bufVars, ev>>
    \/ TakeEvent /\ UNCHANGED <<ktVars, bufVars, ev>>
InitSessionSpec == IdleKT /\ InitBuf /\ IdleCon /\ ev = InitEv
SpecSession == InitSessionSpec /\ [][NextSession]_vars

\* A prepared console on a terminal without cursor addressing, which is
\* not followed.
InitCapsSpec ==
    /\ IdleKT /\ InitBuf /\ ev = InitEv
    /\ con = [prepare(Construct(CapsMoves), <<2, 3>>) EXCEPT !.log = <<>>]
    /\ term = [TermResize(FreshTerm(CapsMoves, <<2, 3>>, 0), <<2, 3>>)
                  EXCEPT !.attr = RawOf(Cooked)]
    /\ obs = NoObs
NextCaps ==
    \/ RefreshSmall /\ UNCHANGED <<ktVars, bufVars, ev>>
    \/ RefreshSame /\ UNCHANGED <<ktVars, bufVars, ev>>
    \/ MoveCursor /\ UNCHANGED <<ktVars, bufVars, ev>>
    \/ Clear /\ UNCHANGED <<ktVars, bufVars, ev>>
    \/ Finish /\ UNCHANGED <<ktVars, bufVars, ev>>
    \/ Restore /\ UNCHANGED <<ktVars, bufVars, ev>>
    \/ TakeEvent /\ UNCHANGED <<ktVars, bufVars, ev>>
SpecCaps == InitCapsSpec /\ [][NextCaps]_vars

\* Consoles built on every set of movement capabilities, prepared on a
\* terminal of MaxCell + 1 rows and columns if construction succeeded,
\* and moved.
InitMoveSpec ==
    /\ IdleKT /\ InitBuf /\ ev = InitEv
    /\ \E caps \in MoveProfiles :
          /\ con = IF Ok(Construct(caps))
                   THEN [prepare(Construct(caps), <<MaxCell + 1, MaxCell + 1>>)
                            EXCEPT !.log = <<>>]
                   ELSE Construct(caps)
          /\ term = [FreshTerm(caps, <<MaxCell + 1, MaxCell + 1>>, 0) EXCEPT
                        !.attr = IF Ok(Construct(caps)) THEN RawOf(Cooked)
                                 ELSE Cooked]
    /\ obs = NoObs
NextMove ==
    \/ MoveAnywhere /\ UNCHANGED <<ktVars, bufVars, ev>>
SpecMove == InitMoveSpec /\ [][NextMove]_vars

\* Sessions on a terminal whose attributes change between them.
InitAttrSpec == IdleKT /\ InitBuf /\ IdleCon /\ ev = InitEv
NextAttr ==
    \/ Stty /\ UNCHANGED <<ktVars, bufVars, ev>>
    \/ Prepare /\ UNCHANGED <<ktVars, bufVars, ev>>
    \/ Restore /\ UNCHANGED <<ktVars, bufVars, ev>>
    \/ RefreshSmall /\ UNCHANGED <<ktVars, bufVars, ev>>
    \/ Finish /\ UNCHANGED <<ktVars, bufVars, ev>>
SpecAttr == InitAttrSpec /\ [][NextAttr]_vars

\* Refreshes of a prepared console with screens up to twice as tall as the
\* terminal.
InitOffsetSpec == IdleKT /\ InitBuf /\ PreparedCon
NextOffset ==
    \/ RefreshTall /\ UNCHANGED <<ktVars, bufVars, ev>>
    \/ MoveCursor /\ UNCHANGED <<ktVars, bufVars, ev>>
    \/ TakeEvent /\ UNCHANGED <<ktVars, bufVars, ev>>
SpecOffset == InitOffsetSpec /\ [][NextOffset]_vars

\* Refreshes of a prepared console with one line as wide as the terminal.
InitLineSpec == IdleKT /\ InitBuf /\ PreparedCon
NextLine ==
    \/ RefreshFull /\ UNCHANGED <<ktVars, bufVars, ev>>
    \/ MoveCursor /\ UNCHANGED <<ktVars, bufVars, ev>>
SpecLine == InitLineSpec /\ [][NextLine]_vars

\* get_event() among arriving bytes and resize signals.
InitEvSpec == IdleKT /\ InitBuf /\ PreparedCon
NextEv ==
    \/ Arrive /\ UNCHANGED <<ktVars, bufVars>>
    \/ GetEvent /\ UNCHANGED <<ktVars, bufVars>>
    \/ ReadByte /\ UNCHANGED <<ktVars, bufVars>>
    \/ ReadFails /\ UNCHANGED <<ktVars, bufVars>>
    \/ SigwinchRetried /\ UNCHANGED <<ktVars, bufVars>>
    \/ SigwinchEINTR /\ UNCHANGED <<ktVars, bufVars>>
SpecEv == InitEvSpec /\ [][NextEv]_vars

\* getpending() among get_event() calls, arriving bytes and resize signals.
InitPendingSpec == IdleKT /\ InitBuf /\ PreparedCon
NextPending ==
    \/ Arrive /\ UNCHANGED <<ktVars, bufVars>>
    \/ GetEvent /\ UNCHANGED <<ktVars, bufVars>>
    \/ ReadByte /\ UNCHANGED <<ktVars, bufVars>>
    \/ SigwinchRetried /\ UNCHANGED <<ktVars, bufVars>>
    \/ GetPending /\ UNCHANGED <<ktVars, bufVars>>
SpecPending == InitPendingSpec /\ [][NextPending]_vars

\* Sessions of prepare, refresh, clear and finish with screens up to twice as
\* tall as the terminal.
InitTallSpec == IdleKT /\ InitBuf /\ PreparedCon
NextTall ==
    \/ Prepare /\ UNCHANGED <<ktVars, bufVars, ev>>
    \/ Restore /\ UNCHANGED <<ktVars, bufVars, ev>>
    \/ RefreshTall /\ UNCHANGED <<ktVars, bufVars, ev>>
    \/ Clear /\ UNCHANGED <<ktVars, bufVars, ev>>
    \/ Finish /\ UNCHANGED <<ktVars, bufVars, ev>>
SpecTall == InitTallSpec /\ [][NextTall]_vars

\* Refreshes of a prepared console during which the terminal is resized.
InitResizeSpec == IdleKT /\ InitBuf /\ PreparedCon
NextResize ==
    \/ RefreshTall /\ UNCHANGED <<ktVars, bufVars, ev>>
    \/ RefreshResized /\ UNCHANGED <<ktVars, bufVars, ev>>
    \/ TakeEvent /\ UNCHANGED <<ktVars, bufVars, ev>>
SpecResize == InitResizeSpec /\ [][NextResize]_vars

\* The buffer of a console built on a terminal with or without a pad
\* character, at a line speed that ratedict lists or not; capabilities and
\* text are pushed and flushed.
InitPadSpec ==
    /\ IdleKT /\ InitBuf /\ ev = InitEv
    /\ \E p \in SUBSET {"_pad_char"}, sp \in Speeds :
          /\ con = [Construct(CapsFull \cup p) EXCEPT
                       !.svtermstate = [base |-> "sane", raw |-> FALSE,
                                        ospeed |-> sp]]
          /\ term = [FreshTerm(CapsFull \cup p, <<2, 3>>, 0) EXCEPT
                        !.attr = [base |-> "sane", raw |-> FALSE, ospeed |-> sp]]
    /\ obs = NoObs
NextPad ==
    \/ PadPush /\ UNCHANGED <<ktVars, ev>>
    \/ PadFlush /\ UNCHANGED <<ktVars, ev>>
SpecPad == InitPadSpec /\ [][NextPad]_vars

====
